---- MODULE Spec2Model ----
(***************************************************************************)
(* Model of buildscripts/evergreen_generate_resmoke_tasks.py: the          *)
(* partitioning of timed tests into suites (divide_tests_into_suites),     *)
(* the fixed-count fallback split (calculate_fallback_suites), the choice  *)
(* between the two (calculate_suites) and the derivation of timeouts       *)
(* (_get_timeout_command, calculate_timeout).                              *)
(*                                                                         *)
(* Python values are modelled as follows.  Runtimes are non-negative       *)
(* integers (seconds).  None is the integer -1, which no runtime, timeout  *)
(* or count takes.  An unset max_suites / max_tests_per_suite is 0: the    *)
(* code only tests these for truth, and None and 0 are both false.         *)
(* Lists are sequences; list index i of Python is index i + 1 here.        *)
(***************************************************************************)
EXTENDS Integers, Sequences, FiniteSets

VARIABLES
    _current_index,       \* Suite._current_index, the process-wide counter
    options,              \* the ConfigOptions the run was started with
    tests_runtimes,       \* list of (test_file, runtime) handed to the partitioner
    max_time_seconds,     \* target runtime of one suite
    max_suites,           \* 0 = unset
    max_tests_per_suite,  \* 0 = unset
    suite_tests,          \* what list_tests() returns
    existing,             \* test files for which os.path.exists holds
    evg,                  \* what the statistics source does when asked
    call,                 \* the last call made: "none", "divide", "fallback", ...
    suites,               \* the list of Suite objects the last call returned
    test_list,            \* GenerateSubSuites.test_list
    outcome,              \* how calculate_suites ended
    max_test_runtime,     \* arguments of _get_timeout_command
    expected_suite_runtime,
    use_default,
    timeout_info,         \* what _get_timeout_command returned or raised
    sub_suite             \* the suite last handed to _create_sub_task

vars == <<_current_index, options, tests_runtimes, max_time_seconds, max_suites,
          max_tests_per_suite, suite_tests, existing, evg, call, suites, test_list,
          outcome, max_test_runtime, expected_suite_runtime, use_default,
          timeout_info, sub_suite>>

----------------------------------------------------------------------------
(* Bounds of the model *)

MaxTests == 3
MaxSuites == 2
MaxTestsPerSuite == 2
MaxFallback == 3
MaxIndex == 4
MaxRepeat == 3
MaxStats == 2
MaxAdds == 4
MaxRuntime == 130

(* Program constants *)

None == -1
AVG_SETUP_TIME == 300
MIN_TIMEOUT_SECONDS == 300
MAX_EXPECTED_TIMEOUT == 172800
SERVICE_UNAVAILABLE == 503

----------------------------------------------------------------------------
(* Input domains *)

TestFiles == {"jstests/a.js", "jstests/b.js"}
\* list_tests() on Windows may name a file with backslashes
ListedFiles == TestFiles \cup {"jstests\\a.js"}
Runtimes == {0, 40, 120}
Targets == {60, 100}

\* The five tests of 40 seconds of the worked example
ExampleFiles == {"jstests/t0.js", "jstests/t1.js", "jstests/t2.js", "jstests/t3.js",
                 "jstests/t4.js"}

TestRuntime(t, r) == [test_file |-> t, runtime |-> r]

TestRuntimes == {TestRuntime(t, r) : t \in TestFiles, r \in Runtimes}

SeqsUpTo(S, n) == UNION {[1..k -> S] : k \in 0..n}

FiveTests ==
    <<TestRuntime("jstests/t0.js", 40), TestRuntime("jstests/t1.js", 40),
      TestRuntime("jstests/t2.js", 40), TestRuntime("jstests/t3.js", 40),
      TestRuntime("jstests/t4.js", 40)>>

Truthy(x) == x # None /\ x # 0

RECURSIVE SumSeq(_)
SumSeq(s) == IF s = <<>> THEN 0 ELSE Head(s) + SumSeq(Tail(s))

RECURSIVE CountIn(_, _)
CountIn(s, x) == IF s = <<>> THEN 0
                 ELSE (IF Head(s) = x THEN 1 ELSE 0) + CountIn(Tail(s), x)

RECURSIVE Concat(_)
Concat(ss) == IF ss = <<>> THEN <<>> ELSE Head(ss) \o Concat(Tail(ss))

Names(trs) == [i \in 1..Len(trs) |-> trs[i].test_file]
RuntimesOf(trs) == [i \in 1..Len(trs) |-> trs[i].runtime]

----------------------------------------------------------------------------
(* class Suite *)

\* Suite.__init__ with the index the counter holds; the caller advances the counter
Suite(index) ==
    [tests |-> <<>>, total_runtime |-> 0, max_runtime |-> 0,
     tests_with_runtime_info |-> 0, index |-> index]

add_test_count_all(suite, test_file, runtime) ==
    [suite EXCEPT
        !.tests = Append(@, test_file),
        !.total_runtime = @ + runtime,
        !.tests_with_runtime_info = @ + 1,
        !.max_runtime = IF runtime > @ THEN runtime ELSE @]

add_test(suite, test_file, runtime) ==
    [suite EXCEPT
        !.tests = Append(@, test_file),
        !.total_runtime = @ + runtime,
        !.tests_with_runtime_info = IF runtime # 0 THEN @ + 1 ELSE @,
        !.max_runtime = IF runtime > @ THEN runtime ELSE @]

should_overwrite_timeout(suite) == Len(suite.tests) = suite.tests_with_runtime_info

get_runtime(suite) == suite.total_runtime

get_test_count(suite) == Len(suite.tests)

----------------------------------------------------------------------------
(* divide_tests_into_suites and its helpers *)

RECURSIVE remaining_loop(_, _, _)
remaining_loop(remaining, ss, suite_idx) ==
    IF remaining = <<>> THEN ss
    ELSE LET tr == Head(remaining)
             ss1 == [ss EXCEPT ![suite_idx + 1] = add_test(@, tr.test_file, tr.runtime)]
             nxt == IF suite_idx + 1 >= Len(ss) THEN 0 ELSE suite_idx + 1
         IN remaining_loop(Tail(remaining), ss1, nxt)

divide_remaining_tests_among_suites_from_last(remaining_tests_runtimes, ss) ==
    remaining_loop(remaining_tests_runtimes, ss, Len(ss) - 1)

divide_remaining_tests_among_suites(remaining_tests_runtimes, ss) ==
    remaining_loop(remaining_tests_runtimes, ss, 0)

_new_suite_needed_no_runtime(current_suite, test_runtime, max_suite_runtime, max_tests) ==
    max_tests # 0 /\ get_test_count(current_suite) + 1 > max_tests

_new_suite_needed_no_count(current_suite, test_runtime, max_suite_runtime, max_tests) ==
    get_runtime(current_suite) + test_runtime > max_suite_runtime

_new_suite_needed_count_ge(current_suite, test_runtime, max_suite_runtime, max_tests) ==
    \/ get_runtime(current_suite) + test_runtime > max_suite_runtime
    \/ max_tests # 0 /\ get_test_count(current_suite) + 1 >= max_tests

_new_suite_needed(current_suite, test_runtime, max_suite_runtime, max_tests) ==
    \/ get_runtime(current_suite) + test_runtime > max_suite_runtime
    \/ max_tests # 0 /\ get_test_count(current_suite) + 1 > max_tests

max_suites_reached_off_by_one(ss, maxs) == maxs # 0 /\ Len(ss) > maxs

max_suites_reached_count_open(ss, maxs) == maxs # 0 /\ Len(ss) + 1 >= maxs

\* the test of line 334
max_suites_reached(ss, maxs) == maxs # 0 /\ Len(ss) >= maxs

\* The for loop of lines 326-338 from list index idx on.  st holds the locals
\* suites, current_suite and last_test_processed and the class counter.
RECURSIVE divide_loop(_, _, _, _, _, _)
divide_loop(st, idx, trs, max_time, maxs, max_tests) ==
    IF idx >= Len(trs) THEN st
    ELSE LET tr == trs[idx + 1]
             close == /\ _new_suite_needed(st.current_suite, tr.runtime, max_time, max_tests)
                      /\ get_test_count(st.current_suite) > 0
             ss1 == IF close THEN Append(st.suites, st.current_suite) ELSE st.suites
             cur1 == IF close THEN Suite(st.counter) ELSE st.current_suite
             cnt1 == IF close THEN st.counter + 1 ELSE st.counter
         IN IF close /\ max_suites_reached(ss1, maxs)
            THEN [suites |-> ss1, current_suite |-> cur1, counter |-> cnt1,
                  last_test_processed |-> idx]
            ELSE divide_loop([suites |-> ss1,
                              current_suite |-> add_test(cur1, tr.test_file, tr.runtime),
                              counter |-> cnt1,
                              last_test_processed |-> st.last_test_processed],
                             idx + 1, trs, max_time, maxs, max_tests)

divide_tests_into_suites_drop(trs, max_time, maxs, max_tests) ==
    LET st == divide_loop([suites |-> <<>>, current_suite |-> Suite(0), counter |-> 1,
                           last_test_processed |-> Len(trs)],
                          0, trs, max_time, maxs, max_tests)
        ss == IF get_test_count(st.current_suite) > 0
              THEN Append(st.suites, st.current_suite) ELSE st.suites
    IN [suites |-> IF maxs # 0 /\ st.last_test_processed < Len(trs)
                   THEN divide_remaining_tests_among_suites(
                            SubSeq(trs, st.last_test_processed + 2, Len(trs)), ss)
                   ELSE ss,
        counter |-> st.counter]

divide_tests_into_suites_append_always(trs, max_time, maxs, max_tests) ==
    LET st == divide_loop([suites |-> <<>>, current_suite |-> Suite(0), counter |-> 1,
                           last_test_processed |-> Len(trs)],
                          0, trs, max_time, maxs, max_tests)
        ss == Append(st.suites, st.current_suite)
    IN [suites |-> IF maxs # 0 /\ st.last_test_processed < Len(trs)
                   THEN divide_remaining_tests_among_suites(
                            SubSeq(trs, st.last_test_processed + 1, Len(trs)), ss)
                   ELSE ss,
        counter |-> st.counter]

\* Returns the list of suites and the value Suite._current_index is left with.
divide_tests_into_suites(trs, max_time, maxs, max_tests) ==
    LET st == divide_loop([suites |-> <<>>, current_suite |-> Suite(0), counter |-> 1,
                           last_test_processed |-> Len(trs)],
                          0, trs, max_time, maxs, max_tests)
        ss == IF get_test_count(st.current_suite) > 0
              THEN Append(st.suites, st.current_suite) ELSE st.suites
    IN [suites |-> IF maxs # 0 /\ st.last_test_processed < Len(trs)
                   THEN divide_remaining_tests_among_suites(
                            SubSeq(trs, st.last_test_processed + 1, Len(trs)), ss)
                   ELSE ss,
        counter |-> st.counter]

----------------------------------------------------------------------------
(* GenerateSubSuites.calculate_fallback_suites *)

RECURSIVE fallback_loop(_, _, _, _)
fallback_loop(ss, tests, idx, n) ==
    IF idx >= Len(tests) THEN ss
    ELSE fallback_loop([ss EXCEPT ![(idx % n) + 1] = add_test(@, tests[idx + 1], 0)],
                       tests, idx + 1, n)

RECURSIVE fallback_loop_with_runtime(_, _, _, _)
fallback_loop_with_runtime(ss, tests, idx, n) ==
    IF idx >= Len(tests) THEN ss
    ELSE fallback_loop_with_runtime(
             [ss EXCEPT ![(idx % n) + 1] = add_test(@, tests[idx + 1], 60)],
             tests, idx + 1, n)

calculate_fallback_suites_with_runtime(tests, n, counter) ==
    [suites |-> fallback_loop_with_runtime([i \in 1..n |-> Suite(counter + i - 1)],
                                           tests, 0, n),
     counter |-> counter + n,
     test_list |-> tests]

calculate_fallback_suites_skip_first(tests, n, counter) ==
    [suites |-> fallback_loop([i \in 1..n |-> Suite(counter + i - 1)], tests, 1, n),
     counter |-> counter + n,
     test_list |-> tests]

\* Returns the suites, the counter and self.test_list; n >= 1.
calculate_fallback_suites(tests, n, counter) ==
    [suites |-> fallback_loop([i \in 1..n |-> Suite(counter + i - 1)], tests, 0, n),
     counter |-> counter + n,
     test_list |-> tests]

----------------------------------------------------------------------------
(* calculate_timeout and EvergreenConfigGenerator._get_timeout_command *)

Max(a, b) == IF a > b THEN a ELSE b

round_to_minute_ceil(runtime) == ((runtime + 59) \div 60) * 60

\* int(math.ceil(x)) is x on the integers
round_to_minute(runtime) ==
    LET distance_to_min == 60 - (runtime % 60)
    IN runtime + distance_to_min

calculate_timeout_no_setup(avg_runtime, scaling_factor) ==
    Max(MIN_TIMEOUT_SECONDS, round_to_minute(avg_runtime)) * scaling_factor

calculate_timeout(avg_runtime, scaling_factor) ==
    Max(MIN_TIMEOUT_SECONDS, round_to_minute(avg_runtime)) * scaling_factor
        + AVG_SETUP_TIME

\* TimeoutInfo.default_timeout(), TimeoutInfo.overridden(...), or the exception raised
default_timeout == [kind |-> "default_timeout", timeout |-> None, exec_timeout |-> None]
overridden(timeout, exec_timeout) ==
    [kind |-> "overridden", timeout |-> timeout, exec_timeout |-> exec_timeout]
raised(error) == [kind |-> error, timeout |-> None, exec_timeout |-> None]

\* Line 621: "timeout > MAX or exec_timeout > MAX", evaluated left to right;
\* ordering None against an int raises TypeError.
ceiling_check(timeout, exec_timeout) ==
    IF timeout = None THEN "TypeError"
    ELSE IF timeout > MAX_EXPECTED_TIMEOUT THEN "over"
    ELSE IF exec_timeout = None THEN "TypeError"
    ELSE IF exec_timeout > MAX_EXPECTED_TIMEOUT THEN "over"
    ELSE "under"

_get_timeout_command_ignore_default(max_rt, expected_rt, use_dflt, repeat, patch) ==
    IF Truthy(max_rt) \/ Truthy(expected_rt)
    THEN overridden(IF Truthy(max_rt) THEN calculate_timeout(max_rt, 3) * repeat ELSE None,
                    IF Truthy(expected_rt) THEN calculate_timeout(expected_rt, 3) * repeat
                    ELSE None)
    ELSE default_timeout

Min(a, b) == IF a < b THEN a ELSE b

_get_timeout_command_clamped(max_rt, expected_rt, use_dflt, repeat, patch) ==
    IF (Truthy(max_rt) \/ Truthy(expected_rt)) /\ ~use_dflt
    THEN overridden(IF Truthy(max_rt)
                    THEN Min(calculate_timeout(max_rt, 3) * repeat, MAX_EXPECTED_TIMEOUT)
                    ELSE None,
                    IF Truthy(expected_rt)
                    THEN Min(calculate_timeout(expected_rt, 3) * repeat,
                             MAX_EXPECTED_TIMEOUT)
                    ELSE None)
    ELSE default_timeout

_get_timeout_command(max_rt, expected_rt, use_dflt, repeat, patch) ==
    IF (Truthy(max_rt) \/ Truthy(expected_rt)) /\ ~use_dflt
    THEN LET timeout == IF Truthy(max_rt)
                        THEN calculate_timeout(max_rt, 3) * repeat ELSE None
             exec_timeout == IF Truthy(expected_rt)
                             THEN calculate_timeout(expected_rt, 3) * repeat ELSE None
             chk == IF patch THEN ceiling_check(timeout, exec_timeout) ELSE "under"
         IN IF chk = "TypeError" THEN raised("TypeError")
            ELSE IF chk = "over" THEN raised("ValueError")
            ELSE overridden(timeout, exec_timeout)
    ELSE default_timeout

\* EvergreenConfigGenerator._generate_task, as far as the timeouts go
_generate_task(max_rt, expected_rt, opts) ==
    _get_timeout_command(max_rt, expected_rt, opts.use_default_timeouts,
                         opts.repeat_suites, opts.is_patch)

_create_sub_task_always_pass(suite, opts) ==
    [max_runtime |-> suite.max_runtime,
     total_runtime |-> get_runtime(suite),
     timeout_info |-> _generate_task(suite.max_runtime, get_runtime(suite), opts)]

\* The runtimes handed to _generate_task and the timeout decision of the task
_create_sub_task(suite, opts) ==
    LET max_runtime == IF should_overwrite_timeout(suite) THEN suite.max_runtime ELSE None
        total_runtime == IF should_overwrite_timeout(suite) THEN get_runtime(suite)
                         ELSE None
    IN [max_runtime |-> max_runtime,
        total_runtime |-> total_runtime,
        timeout_info |-> _generate_task(max_runtime, total_runtime, opts)]

----------------------------------------------------------------------------
(* GenerateSubSuites.calculate_suites and the filters *)

\* teststats.normalize_test_name: backslashes become forward slashes
normalize_test_name(t) == IF t = "jstests\\a.js" THEN "jstests/a.js" ELSE t

\* teststats.TestStats(data).get_tests_runtimes(): the (test, runtime) records
get_tests_runtimes(data) == data

filter_existing_tests(trs, listed, exist) ==
    LET all_tests == {normalize_test_name(listed[i]) : i \in 1..Len(listed)}
        keep(info) == info.test_file \in exist /\ info.test_file \in all_tests
    IN SelectSeq(trs, keep)

filter_specified_tests(specified_tests, trs) ==
    LET keep(info) == info.test_file \in specified_tests
    IN SelectSeq(trs, keep)

filter_tests(trs, opts, listed, exist) ==
    LET kept == filter_existing_tests(trs, listed, exist)
    IN IF opts.selected_tests_to_run # {}
       THEN filter_specified_tests(opts.selected_tests_to_run, kept)
       ELSE kept

returned(via, r, tests) ==
    [kind |-> "returned", via |-> via, error |-> "none", status_code |-> 0,
     suites |-> r.suites, counter |-> r.counter, test_list |-> tests]

propagated(e, counter, tests) ==
    [kind |-> "raised", via |-> "none", error |-> e.kind, status_code |-> e.status_code,
     suites |-> <<>>, counter |-> counter, test_list |-> tests]

calculate_suites_from_evg_stats(data, secs, opts, listed, exist, counter, tests) ==
    LET trs == filter_tests(get_tests_runtimes(data), opts, listed, exist)
    IN IF trs = <<>>
       THEN returned("fallback",
                     calculate_fallback_suites(listed, opts.fallback_num_sub_suites, counter),
                     listed)
       ELSE returned("divide",
                     divide_tests_into_suites(trs, secs,
                                              opts.max_sub_suites, opts.max_tests_per_suite),
                     Names(trs))

calculate_suites_any_http_error(e, opts, listed, exist, counter, tests) ==
    IF e.kind = "HTTPError"
    THEN returned("fallback",
                  calculate_fallback_suites(listed, opts.fallback_num_sub_suites, counter),
                  listed)
    ELSE IF e.kind # "stats" THEN propagated(e, counter, tests)
    ELSE IF e.data = <<>>
    THEN returned("fallback",
                  calculate_fallback_suites(listed, opts.fallback_num_sub_suites, counter),
                  listed)
    ELSE calculate_suites_from_evg_stats(e.data, opts.target_resmoke_time * 60, opts,
                                         listed, exist, counter, tests)

\* e is what get_evg_stats does: it returns e.data (kind "stats") or raises
\* requests.HTTPError with e.status_code, or raises another exception.
calculate_suites(e, opts, listed, exist, counter, tests) ==
    IF e.kind = "HTTPError"
    THEN IF e.status_code = SERVICE_UNAVAILABLE
         THEN returned("fallback",
                       calculate_fallback_suites(listed, opts.fallback_num_sub_suites,
                                                 counter),
                       listed)
         ELSE propagated(e, counter, tests)
    ELSE IF e.kind # "stats" THEN propagated(e, counter, tests)
    ELSE IF e.data = <<>>
    THEN returned("fallback",
                  calculate_fallback_suites(listed, opts.fallback_num_sub_suites, counter),
                  listed)
    ELSE calculate_suites_from_evg_stats(e.data, opts.target_resmoke_time * 60, opts,
                                         listed, exist, counter, tests)

----------------------------------------------------------------------------
(* Initial states *)

Options(target, maxsub, maxtests, fallback, sel, repeat, patch, usedef) ==
    [target_resmoke_time |-> target, max_sub_suites |-> maxsub,
     max_tests_per_suite |-> maxtests, fallback_num_sub_suites |-> fallback,
     selected_tests_to_run |-> sel, repeat_suites |-> repeat, is_patch |-> patch,
     use_default_timeouts |-> usedef]

Stats(data) == [kind |-> "stats", status_code |-> 0, data |-> data]
HTTPError(code) == [kind |-> "HTTPError", status_code |-> code, data |-> <<>>]
ConnectionError == [kind |-> "ConnectionError", status_code |-> 0, data |-> <<>>]

StatusCodes == {404, 500, SERVICE_UNAVAILABLE}

EvgOutcomes == {Stats(d) : d \in SeqsUpTo(TestRuntimes, MaxStats)}
                   \cup {HTTPError(c) : c \in StatusCodes} \cup {ConnectionError}

TimeoutRuntimes == {None, 0, 50, 60, 3600, 28800, 57600}

NoOutcome == [kind |-> "none", via |-> "none", error |-> "none", status_code |-> 0,
              suites |-> <<>>, counter |-> 0, test_list |-> <<>>]

NoTimeout == [kind |-> "none", timeout |-> None, exec_timeout |-> None]

NoSuite == Suite(None)

\* Nothing has been called yet
Fresh ==
    /\ _current_index = 0
    /\ call = "none"
    /\ suites = <<>>
    /\ test_list = <<>>
    /\ outcome = NoOutcome
    /\ timeout_info = NoTimeout
    /\ sub_suite = NoSuite

\* Direct calls of the two partitioners; list_tests() names the tests of the
\* runtime records.  Either the arguments of divide_tests_into_suites vary and
\* the fallback makes one suite, or the number of fallback suites varies and
\* the tests all take 40 seconds.
Init ==
    /\ Fresh
    /\ \/ /\ tests_runtimes \in SeqsUpTo(TestRuntimes, MaxTests) \cup {FiveTests}
          /\ max_time_seconds \in Targets
          /\ max_suites \in 0..MaxSuites
          /\ max_tests_per_suite \in 0..MaxTestsPerSuite
          /\ options = Options(1, 10, 100, 1, {}, 1, FALSE, FALSE)
       \/ /\ tests_runtimes \in
                 SeqsUpTo({TestRuntime(t, 40) : t \in TestFiles}, MaxTests)
          /\ max_time_seconds = 100
          /\ max_suites = 0
          /\ max_tests_per_suite = 0
          /\ options \in {Options(1, 10, 100, n, {}, 1, FALSE, FALSE) :
                             n \in 2..MaxFallback}
    /\ suite_tests = Names(tests_runtimes)
    /\ existing = TestFiles
    /\ evg = Stats(<<>>)
    /\ max_test_runtime = None
    /\ expected_suite_runtime = None
    /\ use_default = FALSE

\* A run of calculate_suites against the statistics source
InitCalc ==
    /\ Fresh
    /\ tests_runtimes = <<>>
    /\ max_time_seconds = 0
    /\ max_suites = 0
    /\ max_tests_per_suite = 0
    /\ options \in {Options(1, ms, 100, n, sel, 1, FALSE, FALSE) :
                       ms \in {0, 1}, n \in 1..MaxFallback,
                       sel \in {{}, {"jstests/a.js"}}}
    /\ suite_tests \in {<<>>, <<"jstests/a.js">>, <<"jstests\\a.js", "jstests/b.js">>,
                        <<"jstests/b.js", "jstests/a.js", "jstests/b.js">>}
    /\ existing \in {TestFiles, {"jstests/a.js"}, {}}
    /\ evg \in EvgOutcomes
    /\ max_test_runtime = None
    /\ expected_suite_runtime = None
    /\ use_default = FALSE

\* A call of _get_timeout_command
InitTimeout ==
    /\ Fresh
    /\ tests_runtimes = <<>>
    /\ max_time_seconds = 0
    /\ max_suites = 0
    /\ max_tests_per_suite = 0
    /\ options \in {Options(1, 10, 100, 1, {}, repeat, patch, FALSE) :
                       repeat \in 1..MaxRepeat, patch \in BOOLEAN}
    /\ suite_tests = <<>>
    /\ existing = {}
    /\ evg = Stats(<<>>)
    /\ max_test_runtime \in TimeoutRuntimes
    /\ expected_suite_runtime \in TimeoutRuntimes
    /\ use_default \in BOOLEAN

TaskOptions(fallbacks) ==
    {Options(1, 10, 100, n, {}, repeat, patch, usedef) :
        n \in fallbacks, repeat \in 1..MaxRepeat, patch \in BOOLEAN, usedef \in BOOLEAN}

\* One Suite has been constructed; tests_runtimes lists the add_test calls
\* made on it so far.
InitSuite ==
    /\ _current_index = 1
    /\ call = "Suite"
    /\ suites = <<Suite(0)>>
    /\ tests_runtimes = <<>>
    /\ test_list = <<>>
    /\ outcome = NoOutcome
    /\ timeout_info = NoTimeout
    /\ sub_suite = NoSuite
    /\ max_time_seconds = 0
    /\ max_suites = 0
    /\ max_tests_per_suite = 0
    /\ options \in TaskOptions({1})
    /\ suite_tests = <<>>
    /\ existing = {}
    /\ evg = Stats(<<>>)
    /\ max_test_runtime = None
    /\ expected_suite_runtime = None
    /\ use_default = options.use_default_timeouts

\* The fallback partitioner followed by the generation of the tasks
InitFallbackTask ==
    /\ Fresh
    /\ tests_runtimes = <<>>
    /\ max_time_seconds = 0
    /\ max_suites = 0
    /\ max_tests_per_suite = 0
    /\ options \in TaskOptions(1..MaxFallback)
    /\ suite_tests \in SeqsUpTo(TestFiles, MaxTests)
    /\ existing = TestFiles
    /\ evg = Stats(<<>>)
    /\ max_test_runtime = None
    /\ expected_suite_runtime = None
    /\ use_default = options.use_default_timeouts

\* A call of calculate_timeout(avg_runtime, 3) with avg_runtime = max_test_runtime
InitRound ==
    /\ Fresh
    /\ tests_runtimes = <<>>
    /\ max_time_seconds = 0
    /\ max_suites = 0
    /\ max_tests_per_suite = 0
    /\ options = Options(1, 10, 100, 1, {}, 1, FALSE, FALSE)
    /\ suite_tests = <<>>
    /\ existing = {}
    /\ evg = Stats(<<>>)
    /\ max_test_runtime \in 0..MaxRuntime
    /\ expected_suite_runtime = None
    /\ use_default = FALSE

----------------------------------------------------------------------------
(* Actions: one per call *)

inputs == <<options, tests_runtimes, max_time_seconds, max_suites, max_tests_per_suite,
            suite_tests, existing, evg, max_test_runtime, expected_suite_runtime,
            use_default>>

DivideTestsIntoSuites ==
    LET r == divide_tests_into_suites(tests_runtimes, max_time_seconds, max_suites,
                                      max_tests_per_suite)
    IN /\ call' = "divide"
       /\ suites' = r.suites
       /\ _current_index' = r.counter
       /\ UNCHANGED <<inputs, test_list, outcome, timeout_info, sub_suite>>

CalculateFallbackSuites ==
    LET r == calculate_fallback_suites(suite_tests, options.fallback_num_sub_suites,
                                       _current_index)
    IN /\ _current_index + options.fallback_num_sub_suites <= MaxIndex
       /\ call' = "fallback"
       /\ suites' = r.suites
       /\ _current_index' = r.counter
       /\ test_list' = r.test_list
       /\ UNCHANGED <<inputs, outcome, timeout_info, sub_suite>>

CalculateSuites ==
    LET r == calculate_suites(evg, options, suite_tests, existing, _current_index,
                              test_list)
    IN /\ r.counter <= MaxIndex
       /\ call' = "calculate_suites"
       /\ outcome' = r
       /\ suites' = r.suites
       /\ _current_index' = r.counter
       /\ test_list' = r.test_list
       /\ UNCHANGED <<inputs, timeout_info, sub_suite>>

GetTimeoutCommand ==
    /\ call' = "_get_timeout_command"
    /\ timeout_info' = _get_timeout_command(max_test_runtime, expected_suite_runtime,
                                            use_default, options.repeat_suites,
                                            options.is_patch)
    /\ UNCHANGED <<inputs, _current_index, suites, test_list, outcome, sub_suite>>

\* Suite.add_test on the one suite of InitSuite.  Suites are filled before
\* they are handed to the task generator (GenerateSubSuites.run).
AddTest ==
    \E tr \in TestRuntimes :
        /\ call \in {"Suite", "add_test"}
        /\ Len(tests_runtimes) < MaxAdds
        /\ call' = "add_test"
        /\ suites' = <<add_test(suites[1], tr.test_file, tr.runtime)>>
        /\ tests_runtimes' = Append(tests_runtimes, tr)
        /\ UNCHANGED <<_current_index, options, max_time_seconds, max_suites,
                       max_tests_per_suite, suite_tests, existing, evg, test_list,
                       outcome, max_test_runtime, expected_suite_runtime, use_default,
                       timeout_info, sub_suite>>

\* EvergreenConfigGenerator._create_sub_task(idx, suite) for a suite of the list
CreateSubTask ==
    \E idx \in 1..Len(suites) :
        LET r == _create_sub_task(suites[idx], options)
        IN /\ call' = "_create_sub_task"
           /\ sub_suite' = suites[idx]
           /\ max_test_runtime' = r.max_runtime
           /\ expected_suite_runtime' = r.total_runtime
           /\ use_default' = options.use_default_timeouts
           /\ timeout_info' = r.timeout_info
           /\ UNCHANGED <<_current_index, options, tests_runtimes, max_time_seconds,
                          max_suites, max_tests_per_suite, suite_tests, existing, evg,
                          suites, test_list, outcome>>

\* calculate_timeout(max_test_runtime, 3); timeout records what the inner
\* round_to_minute returned, exec_timeout what calculate_timeout returned
CalculateTimeout ==
    /\ call' = "calculate_timeout"
    /\ timeout_info' = [kind |-> "calculate_timeout",
                        timeout |-> round_to_minute(max_test_runtime),
                        exec_timeout |-> calculate_timeout(max_test_runtime, 3)]
    /\ UNCHANGED <<inputs, _current_index, suites, test_list, outcome, sub_suite>>

Next == DivideTestsIntoSuites \/ CalculateFallbackSuites

NextCalc == CalculateSuites

NextTimeout == GetTimeoutCommand

Spec == Init /\ [][Next]_vars

SpecCalc == InitCalc /\ [][NextCalc]_vars

SpecTimeout == InitTimeout /\ [][NextTimeout]_vars

NextSuite == AddTest \/ CreateSubTask

SpecSuite == InitSuite /\ [][NextSuite]_vars

NextFallbackTask == CalculateFallbackSuites \/ CreateSubTask

SpecFallbackTask == InitFallbackTask /\ [][NextFallbackTask]_vars

NextRound == CalculateTimeout

SpecRound == InitRound /\ [][NextRound]_vars

----------------------------------------------------------------------------
(* Properties of divide_tests_into_suites, checked under Spec *)

TestCounts(ss) == [i \in 1..Len(ss) |-> Len(ss[i].tests)]
TotalRuntimes(ss) == [i \in 1..Len(ss) |-> ss[i].total_runtime]
AllTests(ss) == Concat([i \in 1..Len(ss) |-> ss[i].tests])

\* Every input record is in exactly one of the suites ss
EachAssignedOnce(ss, trs) ==
    /\ SumSeq(TestCounts(ss)) = Len(trs)
    /\ \A t \in TestFiles \cup ExampleFiles :
          CountIn(AllTests(ss), t) = CountIn(Names(trs), t)
    /\ SumSeq(TotalRuntimes(ss)) = SumSeq(RuntimesOf(trs))

\* C1: divide_tests_into_suites assigns every input position to exactly one
\* suite: the suites' test counts add up to the input length, every test name
\* occurs in the suites as often as in the input, and no runtime is lost.
C1_EveryTestAssignedOnce ==
    call = "divide" => EachAssignedOnce(suites, tests_runtimes)

\* max_suites bound the run, the remainder went to the one suite, and a test
\* name occurs twice in the input
C1_Witness ==
    /\ call = "divide"
    /\ max_suites = 1
    /\ Len(tests_runtimes) = 3
    /\ tests_runtimes[1].test_file = tests_runtimes[2].test_file
    /\ Len(suites) = 1
    /\ Len(suites[1].tests) = 3
    /\ get_runtime(suites[1]) > max_time_seconds

\* The number of suites the same input gives without max_suites
NaturalCount ==
    Len(divide_tests_into_suites(tests_runtimes, max_time_seconds, 0,
                                 max_tests_per_suite).suites)

\* C2: when max_suites is set and the input partitioned without it gives more
\* than max_suites suites, the result has exactly max_suites suites holding
\* every input test once.
C2_ExactlyMaxSuites ==
    (call = "divide" /\ max_suites >= 1 /\ NaturalCount > max_suites)
        => /\ Len(suites) = max_suites
           /\ EachAssignedOnce(suites, tests_runtimes)

C2_Witness ==
    /\ call = "divide"
    /\ max_suites = 2
    /\ NaturalCount = 3
    /\ Len(suites) = 2
    /\ Len(suites[1].tests) = 2

\* C3: without max_suites no suite runs longer than the target, except a
\* suite of one test whose own runtime is over the target.
C3_RuntimeBound ==
    (call = "divide" /\ max_suites = 0)
        => \A i \in 1..Len(suites) :
              suites[i].total_runtime > max_time_seconds
                  => /\ Len(suites[i].tests) = 1
                     /\ \E p \in 1..Len(tests_runtimes) :
                           /\ tests_runtimes[p].test_file = suites[i].tests[1]
                           /\ tests_runtimes[p].runtime > max_time_seconds
                           /\ tests_runtimes[p].runtime = suites[i].total_runtime

\* a suite filled up to the target next to a suite of one oversized test
C3_Witness ==
    /\ call = "divide"
    /\ max_suites = 0
    /\ Len(suites) = 2
    /\ Len(suites[1].tests) = 2
    /\ suites[1].total_runtime = 80
    /\ suites[2].total_runtime > max_time_seconds

----------------------------------------------------------------------------
(* Properties of _get_timeout_command, checked under SpecTimeout *)

\* The smallest multiple of 60 strictly above r
NextFullMinute(r) ==
    CHOOSE m \in {60 * k : k \in 1..((r \div 60) + 1)} : m > r /\ m - 60 <= r

OverrideComputed ==
    /\ call = "_get_timeout_command"
    /\ Truthy(max_test_runtime) \/ Truthy(expected_suite_runtime)
    /\ ~use_default

\* The two timeouts the code computes for a present, non-zero input
ComputedFor(r) ==
    (Max(MIN_TIMEOUT_SECONDS, NextFullMinute(r)) * 3 + AVG_SETUP_TIME)
        * options.repeat_suites

\* C4 as stated: the setup time is added once, after multiplying by repeat_factor
C4_SetupAddedOnce ==
    (call = "_get_timeout_command" /\ timeout_info.kind = "overridden")
        => /\ Truthy(max_test_runtime)
                => timeout_info.timeout =
                       Max(MIN_TIMEOUT_SECONDS, NextFullMinute(max_test_runtime)) * 3
                           * options.repeat_suites + AVG_SETUP_TIME
           /\ Truthy(expected_suite_runtime)
                => timeout_info.exec_timeout =
                       Max(MIN_TIMEOUT_SECONDS, NextFullMinute(expected_suite_runtime)) * 3
                           * options.repeat_suites + AVG_SETUP_TIME

\* C4, amended: the emitted timeout is
\* (max(300, next full minute of r) * 3 + 300) * repeat_factor; the setup time
\* is multiplied by repeat_factor too.
C4_SetupTimesRepeat ==
    (call = "_get_timeout_command" /\ timeout_info.kind = "overridden")
        => /\ Truthy(max_test_runtime)
                => timeout_info.timeout = ComputedFor(max_test_runtime)
           /\ Truthy(expected_suite_runtime)
                => timeout_info.exec_timeout = ComputedFor(expected_suite_runtime)

C4_Witness ==
    /\ call = "_get_timeout_command"
    /\ timeout_info.kind = "overridden"
    /\ max_test_runtime = 50
    /\ options.repeat_suites = 2
    /\ timeout_info.timeout = 2400
    /\ expected_suite_runtime = 3600
    /\ timeout_info.exec_timeout = 22560

\* C6: in a patch build an override with a computed timeout above 48 hours
\* fails with the 'expected runtime' ValueError.
C6_CeilingFailure ==
    (/\ OverrideComputed
     /\ options.is_patch
     /\ \/ Truthy(max_test_runtime)
              /\ ComputedFor(max_test_runtime) > MAX_EXPECTED_TIMEOUT
        \/ Truthy(expected_suite_runtime)
              /\ ComputedFor(expected_suite_runtime) > MAX_EXPECTED_TIMEOUT)
        => timeout_info.kind = "ValueError"

\* C7: use_default, or both runtimes absent or zero, gives the default
\* timeouts, for every repeat factor, in and out of a patch build.
C7_DefaultTimeouts ==
    (/\ call = "_get_timeout_command"
     /\ \/ use_default
        \/ ~Truthy(max_test_runtime) /\ ~Truthy(expected_suite_runtime))
        => timeout_info = default_timeout

\* use_default wins over runtimes that would break the ceiling in a patch build
C7_Witness ==
    /\ call = "_get_timeout_command"
    /\ use_default
    /\ options.is_patch
    /\ max_test_runtime = 57600
    /\ expected_suite_runtime = 57600
    /\ timeout_info.kind = "default_timeout"

\* C8: with exactly one runtime present and non-zero the result is an
\* override carrying only that timeout, in and out of a patch build (in a
\* patch build with the computed value under the ceiling).
C8_SingleInputOverride ==
    /\ (/\ OverrideComputed
        /\ Truthy(max_test_runtime) /\ ~Truthy(expected_suite_runtime)
        /\ options.is_patch => ComputedFor(max_test_runtime) <= MAX_EXPECTED_TIMEOUT)
           => timeout_info = overridden(ComputedFor(max_test_runtime), None)
    /\ (/\ OverrideComputed
        /\ ~Truthy(max_test_runtime) /\ Truthy(expected_suite_runtime)
        /\ options.is_patch => ComputedFor(expected_suite_runtime) <= MAX_EXPECTED_TIMEOUT)
           => timeout_info = overridden(None, ComputedFor(expected_suite_runtime))

----------------------------------------------------------------------------
(* Properties of calculate_fallback_suites, checked under Spec *)

\* ss is the round-robin split of tests over n suites, all runtimes 0
RoundRobin(ss, tests, n) ==
    /\ Len(ss) = n
    /\ SumSeq(TestCounts(ss)) = Len(tests)
    /\ \A i \in 0..(Len(tests) - 1) :
          LET s == ss[(i % n) + 1]
          IN /\ Len(s.tests) >= (i \div n) + 1
             /\ s.tests[(i \div n) + 1] = tests[i + 1]
    /\ \A k \in 1..Len(ss) :
          /\ ss[k].total_runtime = 0
          /\ ss[k].max_runtime = 0
          /\ ss[k].tests_with_runtime_info = 0

\* C5: calculate_fallback_suites returns exactly n suites, the test at input
\* index i is in suite i mod n at position i div n (input order within the
\* suite) with runtime 0, and suites stay empty when the list is short.
C5_FallbackRoundRobin ==
    call = "fallback"
        => RoundRobin(suites, suite_tests, options.fallback_num_sub_suites)

\* the round wraps: three tests over two suites
C5_Witness ==
    /\ call = "fallback"
    /\ options.fallback_num_sub_suites = 2
    /\ Len(suite_tests) = 3
    /\ suite_tests[1] # suite_tests[2]
    /\ suites[1].tests = <<suite_tests[1], suite_tests[3]>>
    /\ suites[2].tests = <<suite_tests[2]>>

\* fewer tests than suites leaves suites empty
C5_EmptySuiteReached ==
    /\ call = "fallback"
    /\ options.fallback_num_sub_suites = 3
    /\ Len(suite_tests) = 1
    /\ suites[3].tests = <<>>

\* C10: the suites of the latest partitioning run carry the creation indices
\* 0, 1, ..., k-1 in output order, whatever ran before.
C10_IndicesFromZero ==
    call \in {"divide", "fallback"}
        => \A i \in 1..Len(suites) : suites[i].index = i - 1

----------------------------------------------------------------------------
(* Properties of calculate_suites, checked under SpecCalc *)

\* No record of the statistics survives the filters
AllFilteredOut ==
    \A i \in 1..Len(evg.data) :
        LET t == evg.data[i].test_file
        IN ~ /\ t \in existing
             /\ \E j \in 1..Len(suite_tests) : normalize_test_name(suite_tests[j]) = t
             /\ options.selected_tests_to_run # {} => t \in options.selected_tests_to_run

FallbackSituation ==
    \/ evg.kind = "stats" /\ evg.data = <<>>
    \/ evg.kind = "stats" /\ evg.data # <<>> /\ AllFilteredOut
    \/ evg.kind = "HTTPError" /\ evg.status_code = SERVICE_UNAVAILABLE

\* C9: calculate_suites returns the fallback partition, of exactly
\* fallback_num_sub_suites suites, when the statistics are empty, when every
\* record is filtered out, or when the source fails with HTTP 503, and in no
\* other case; any other failure of the source is raised unchanged and no
\* suites are returned.
C9_FallbackSituations ==
    call = "calculate_suites"
        => /\ FallbackSituation <=> outcome.via = "fallback"
           /\ FallbackSituation
                => /\ outcome.kind = "returned"
                   /\ RoundRobin(suites, suite_tests, options.fallback_num_sub_suites)
           /\ (evg.kind # "stats" /\ ~FallbackSituation)
                => /\ outcome.kind = "raised"
                   /\ outcome.error = evg.kind
                   /\ outcome.status_code = evg.status_code
                   /\ suites = <<>>
           /\ (evg.kind = "stats" /\ ~FallbackSituation)
                => /\ outcome.kind = "returned"
                   /\ outcome.via = "divide"
                   /\ suites # <<>>

\* the source answered 503 and two fallback suites came back
C9_Witness ==
    /\ call = "calculate_suites"
    /\ evg = HTTPError(SERVICE_UNAVAILABLE)
    /\ outcome.kind = "returned"
    /\ outcome.via = "fallback"
    /\ Len(suite_tests) = 3
    /\ Len(suites) = 2

\* a failure other than 503 reached the caller
C9_PropagationReached ==
    /\ call = "calculate_suites"
    /\ evg = HTTPError(500)
    /\ outcome.kind = "raised"

----------------------------------------------------------------------------
(* Further properties of divide_tests_into_suites, checked under Spec *)

\* C11: after divide_tests_into_suites returned a non-empty list, the counter
\* Suite.name reads as the total suite count is the length of that list.
C11_CounterIsSuiteCount ==
    (call = "divide" /\ suites # <<>>) => _current_index = Len(suites)

\* C12: every suite returned by divide_tests_into_suites holds a test, and an
\* empty input gives an empty list.
C12_NoEmptySuite ==
    call = "divide"
        => /\ \A i \in 1..Len(suites) : Len(suites[i].tests) >= 1
           /\ tests_runtimes = <<>> => suites = <<>>

\* the first test alone is over the target, one test per suite, and the run
\* stopped at max_suites
C12_Witness ==
    /\ call = "divide"
    /\ max_tests_per_suite = 1
    /\ max_suites = 2
    /\ Len(tests_runtimes) = 3
    /\ tests_runtimes[1].runtime > max_time_seconds
    /\ Len(suites) = 2
    /\ Len(suites[1].tests) = 2

\* The suites the same input gives without max_suites
Natural ==
    divide_tests_into_suites(tests_runtimes, max_time_seconds, 0,
                             max_tests_per_suite).suites

\* Number of list elements before the k-th suite of ss (k from 1)
Offset(ss, k) == SumSeq(TestCounts(SubSeq(ss, 1, k - 1)))

\* List index of the test that triggered the stop at max_suites
FirstUnprocessed == Offset(Natural, max_suites + 1)

\* The unprocessed tests that go to suite k (from 1) in a round over max_suites suites
RemainderOf(k) ==
    LET r == Len(tests_runtimes) - FirstUnprocessed
        cnt == IF r >= k THEN ((r - k) \div max_suites) + 1 ELSE 0
    IN [j \in 1..cnt |->
           tests_runtimes[FirstUnprocessed + (k - 1) + (j - 1) * max_suites + 1]]

\* C13: after a stop at max_suites the j-th unprocessed test is appended to
\* suite j mod max_suites, its runtime added to the suite's total, whatever
\* the bounds.
C13_RemainderRoundRobin ==
    (call = "divide" /\ max_suites >= 1 /\ Len(Natural) > max_suites)
        => /\ Len(suites) = max_suites
           /\ \A k \in 1..Len(suites) :
                 /\ suites[k].tests = Natural[k].tests \o Names(RemainderOf(k))
                 /\ suites[k].total_runtime =
                        Natural[k].total_runtime + SumSeq(RuntimesOf(RemainderOf(k)))

\* five tests of 40 seconds, target 100, max_suites 2: tests 0,1,4 and tests 2,3
C13_Witness ==
    /\ call = "divide"
    /\ tests_runtimes = FiveTests
    /\ max_time_seconds = 100
    /\ max_suites = 2
    /\ max_tests_per_suite = 0
    /\ Len(suites) = 2
    /\ suites[1].tests = <<"jstests/t0.js", "jstests/t1.js", "jstests/t4.js">>
    /\ suites[1].total_runtime = 120
    /\ suites[2].tests = <<"jstests/t2.js", "jstests/t3.js">>
    /\ suites[2].total_runtime = 80

\* Runtime of the first test of the k-th suite, the suites being consecutive
\* segments of the input
FirstRuntime(k) == tests_runtimes[Offset(suites, k) + 1].runtime

\* C14: without max_suites a positive max_tests_per_suite bounds the size of
\* every suite; with max_tests_per_suite 0 every suite but the last was closed
\* by the runtime bound.
C14_CountBound ==
    (call = "divide" /\ max_suites = 0)
        => /\ max_tests_per_suite > 0
                => \A i \in 1..Len(suites) : Len(suites[i].tests) <= max_tests_per_suite
           /\ max_tests_per_suite = 0
                => /\ AllTests(suites) = Names(tests_runtimes)
                   /\ \A k \in 1..(Len(suites) - 1) :
                         suites[k].total_runtime + FirstRuntime(k + 1) > max_time_seconds

\* three tests that fit the target together are split by the count bound
C14_Witness ==
    /\ call = "divide"
    /\ max_suites = 0
    /\ max_tests_per_suite = 2
    /\ Len(tests_runtimes) = 3
    /\ SumSeq(RuntimesOf(tests_runtimes)) <= max_time_seconds
    /\ Len(suites) = 2
    /\ Len(suites[1].tests) = 2

\* the count bound is off and one suite takes three tests
C14_UnboundedReached ==
    /\ call = "divide"
    /\ max_suites = 0
    /\ max_tests_per_suite = 0
    /\ Len(suites) = 1
    /\ Len(suites[1].tests) = 3

\* The k-th suite as a segment of the input
Segment(k) ==
    SubSeq(tests_runtimes, Offset(suites, k) + 1, Offset(suites, k + 1))

\* C18: without max_suites the suites are consecutive segments of the input,
\* and the first test of each next suite would have taken the suite before it
\* over the target runtime or over max_tests_per_suite.
C18_GreedySegments ==
    (call = "divide" /\ max_suites = 0)
        => /\ AllTests(suites) = Names(tests_runtimes)
           /\ \A k \in 1..Len(suites) :
                 /\ suites[k].tests = Names(Segment(k))
                 /\ suites[k].total_runtime = SumSeq(RuntimesOf(Segment(k)))
           /\ \A k \in 1..(Len(suites) - 1) :
                 \/ suites[k].total_runtime + FirstRuntime(k + 1) > max_time_seconds
                 \/ /\ max_tests_per_suite # 0
                    /\ Len(suites[k].tests) + 1 > max_tests_per_suite

\* five tests of 40 seconds with target 100 give suites of 2, 2 and 1 tests
C18_Witness ==
    /\ call = "divide"
    /\ tests_runtimes = FiveTests
    /\ max_time_seconds = 100
    /\ max_suites = 0
    /\ max_tests_per_suite = 0
    /\ TestCounts(suites) = <<2, 2, 1>>

----------------------------------------------------------------------------
(* Properties of Suite and _create_sub_task, checked under SpecSuite *)

RECURSIVE MaxOf(_)
MaxOf(s) == IF s = <<>> THEN 0 ELSE Max(Head(s), MaxOf(Tail(s)))

\* C15: after any sequence of add_test calls the suite's total_runtime is the
\* sum of the runtimes added, max_runtime the largest of them (0 when there is
\* none), tests_with_runtime_info the number of non-zero ones, and tests the
\* tests in the order added.
C15_SuiteBookkeeping ==
    call \in {"Suite", "add_test"}
        => /\ suites[1].total_runtime = SumSeq(RuntimesOf(tests_runtimes))
           /\ suites[1].max_runtime = MaxOf(RuntimesOf(tests_runtimes))
           /\ suites[1].tests_with_runtime_info =
                  Cardinality({i \in 1..Len(tests_runtimes) : tests_runtimes[i].runtime # 0})
           /\ suites[1].tests = Names(tests_runtimes)

C15_Witness ==
    /\ call = "add_test"
    /\ RuntimesOf(tests_runtimes) = <<40, 120, 0, 40>>
    /\ suites[1].total_runtime = 200
    /\ suites[1].max_runtime = 120
    /\ suites[1].tests_with_runtime_info = 3
    /\ Len(suites[1].tests) = 4

\* C16: for a suite holding a test of runtime 0, _create_sub_task hands no
\* runtimes on and the timeout decision is the default one.
C16_NoOverrideWithoutFullInfo ==
    (/\ call = "_create_sub_task"
     /\ \E i \in 1..Len(tests_runtimes) : tests_runtimes[i].runtime = 0)
        => /\ max_test_runtime = None
           /\ expected_suite_runtime = None
           /\ timeout_info = default_timeout

\* one test without runtime next to one of 120 seconds, default timeouts not asked for
C16_Witness ==
    /\ call = "_create_sub_task"
    /\ RuntimesOf(tests_runtimes) = <<120, 0>>
    /\ sub_suite.max_runtime = 120
    /\ ~options.use_default_timeouts
    /\ timeout_info.kind = "default_timeout"

\* a suite with runtimes for all its tests does get an override
C16_OverrideReached ==
    /\ call = "_create_sub_task"
    /\ RuntimesOf(tests_runtimes) = <<120, 40>>
    /\ timeout_info.kind = "overridden"

----------------------------------------------------------------------------
(* Property of round_to_minute, checked under SpecRound *)

C17_ZeroReached ==
    /\ call = "calculate_timeout"
    /\ max_test_runtime = 0
    /\ timeout_info.timeout = 60

----------------------------------------------------------------------------
(* Clamping, checked under SpecTimeout *)

ComputedOrNone(r) == IF Truthy(r) THEN ComputedFor(r) ELSE None

\* C19: an override carries exactly the computed timeouts, and outside a
\* patch build a computed timeout above 48 hours is returned as it is.
C19_NeverClamped ==
    /\ (call = "_get_timeout_command" /\ timeout_info.kind = "overridden")
          => /\ timeout_info.timeout = ComputedOrNone(max_test_runtime)
             /\ timeout_info.exec_timeout = ComputedOrNone(expected_suite_runtime)
    /\ (OverrideComputed /\ ~options.is_patch)
          => timeout_info = overridden(ComputedOrNone(max_test_runtime),
                                       ComputedOrNone(expected_suite_runtime))

C19_Witness ==
    /\ call = "_get_timeout_command"
    /\ ~options.is_patch
    /\ options.repeat_suites = 3
    /\ max_test_runtime = 57600
    /\ timeout_info.kind = "overridden"
    /\ timeout_info.timeout = 519840
    /\ timeout_info.timeout > MAX_EXPECTED_TIMEOUT

----------------------------------------------------------------------------
(* Fallback suites and their timeouts, checked under SpecFallbackTask *)

\* C20: every suite of calculate_fallback_suites, empty or not, gets the
\* default timeouts from _create_sub_task, for every repeat factor, in and out
\* of a patch build; none gets an override or fails the ceiling check.
C20_FallbackUsesDefault ==
    call = "_create_sub_task"
        => /\ \E i \in 1..Len(suites) : suites[i] = sub_suite
           /\ timeout_info = default_timeout

\* a fallback suite with two tests in a patch build, default timeouts not asked for
C20_Witness ==
    /\ call = "_create_sub_task"
    /\ Len(sub_suite.tests) = 2
    /\ options.is_patch
    /\ options.repeat_suites = 3
    /\ ~options.use_default_timeouts
    /\ timeout_info.kind = "default_timeout"

\* an empty fallback suite
C20_EmptyReached ==
    /\ call = "_create_sub_task"
    /\ sub_suite.tests = <<>>
    /\ options.is_patch
    /\ ~options.use_default_timeouts
    /\ timeout_info.kind = "default_timeout"

----------------------------------------------------------------------------
(* max_suites at or above the number of suites the input needs *)

\* C21: when max_suites is at least the number of suites the same input gives
\* without it, divide_tests_into_suites returns the same list of suites: the
\* same tests in the same order, the same total_runtime and max_runtime in
\* each, also when max_suites equals that number.
C21_NoEffectWhenNotBinding ==
    (call = "divide" /\ max_suites >= 1 /\ max_suites >= Len(Natural))
        => /\ Len(suites) = Len(Natural)
           /\ \A k \in 1..Len(suites) :
                 /\ suites[k].tests = Natural[k].tests
                 /\ suites[k].total_runtime = Natural[k].total_runtime
                 /\ suites[k].max_runtime = Natural[k].max_runtime

\* the boundary: the input needs two suites and max_suites is 2
C21_Witness ==
    /\ call = "divide"
    /\ max_suites = 2
    /\ Len(Natural) = 2
    /\ Len(tests_runtimes) = 3
    /\ Len(suites) = 2
    /\ suites = Natural

\* max_suites above the number needed: one suite of two tests, max_suites 2
C21_AboveReached ==
    /\ call = "divide"
    /\ max_suites = 2
    /\ Len(Natural) = 1
    /\ Len(suites) = 1
    /\ Len(suites[1].tests) = 2

====
